---- MODULE Spec2Model ----
(***************************************************************************)
(* The HeyGen video gateway: the handlers of api/endpoints/heygen.py, the  *)
(* polling loop wait_for_video_completion and the storage transfer of      *)
(* services/s3_service.py.                                                 *)
(*                                                                         *)
(* A handler is an asyncio coroutine.  requests.get/post and the S3 calls  *)
(* are blocking, so the only point where a handler yields is               *)
(* `await asyncio.sleep(check_interval)` in the waiter.  The provider and  *)
(* the object store are the environment: each call to them has a           *)
(* nondeterministically chosen outcome.                                    *)
(*                                                                         *)
(* Spec serves the requests of all routes one at a time.  SpecDeadline is  *)
(* one call of the waiter with any deadline, SpecConcurrent two waits for  *)
(* different jobs interleaved, SpecLifecycle status requests and short     *)
(* waits for the same jobs with what the clients were told.                *)
(***************************************************************************)
EXTENDS Integers, Sequences, FiniteSets, TLC

\* ------------------------------------------------------------- bounds
NumReqs == 2
NumVideoIds == 1
MaxClock == 1

\* -------------------------------------------------- program constants
DefaultMaxWait == 300
check_interval == 10
EstimatedTimeGenerate == 60
EstimatedTimeProcessing == 30

Reqs == 1..NumReqs
VidNames == <<"abc123", "def456", "ghi789">>
\* A Python str value.
Str(chars) == [kind |-> "str", chars |-> chars]
VideoIds == {Str(VidNames[i]) : i \in 1..NumVideoIds}

\* ------------------------------------------------------ Python values
None == [kind |-> "None"]
EmptyStr == Str("")
\* Python truthiness of an Optional[str]: None and "" are falsy.
Truthy(x) == x # None /\ x # EmptyStr

\* The provider-hosted URL of a finished asset.
RemoteUrl(vid) == [kind |-> "remote", video_id |-> vid]

VARIABLES
    pc,                 \* per request: "idle", "loop", "sleep", "done"
    handler,            \* per request: the endpoint that serves it
    video_id,           \* per request: the job id (None before the submit answered)
    max_wait_seconds,   \* per request: the waiter's deadline argument
    wait_time,          \* per request: the waiter's accumulated elapsed time
    obs,                \* per request: what the request did (calls made, time suspended)
    resp,               \* per request: the response produced for the client
    bucket,             \* the object store: the set of objects it holds, one per key
    request,            \* per request: the HTTP request received (route and input)
    x_api_key,          \* per request: its X-Api-Key header (None when there is none)
    reported            \* per job: the first terminal status a client was sent for it

vars == <<pc, handler, video_id, max_wait_seconds, wait_time, obs, resp, bucket, request,
          x_api_key, reported>>

\* ------------------------------------------------------ storage client
\* Mutant: the key is built from the job id alone.
S3Key_NoTimestamp(timestamp, vid) ==
    [prefix |-> "heygen_videos/", timestamp |-> 0, video_id |-> vid, suffix |-> ".mp4"]

\* s3_key = f"heygen_videos/{timestamp}_{video_id}.mp4"
S3Key(timestamp, vid) == [prefix |-> "heygen_videos/", timestamp |-> timestamp,
                          video_id |-> vid, suffix |-> ".mp4"]

\* settings.s3_endpoint, as the sequence of its pieces (the default ends with a
\* slash), and settings.s3_bucket_name.
s3_endpoint == <<"https://nyc3.digitaloceanspaces.com", "/">>
bucket_name == "smtech-space"

\* str.rstrip(ch): the string without its trailing ch pieces.
RECURSIVE RStrip(_, _)
RStrip(str, ch) ==
    IF Len(str) > 0 /\ str[Len(str)] = ch
    THEN RStrip(SubSeq(str, 1, Len(str) - 1), ch)
    ELSE str

\* Mutant: the endpoint is joined as configured, trailing slash included.
S3Url_NoStrip(key) ==
    [kind |-> "s3", endpoint |-> s3_endpoint, bucket_name |-> bucket_name, key |-> key]

\* s3_url = f"{settings.s3_endpoint.rstrip('/')}/{self.bucket_name}/{s3_key}"
S3Url(key) ==
    [kind |-> "s3", endpoint |-> RStrip(s3_endpoint, "/"), bucket_name |-> bucket_name,
     key |-> key]

\* The size the store reports for an object whose body was streamed from url.
ContentLength(url) == [bytes_of |-> url]

\* upload_fileobj(body, bucket_name, key, ExtraArgs) at second t on bucket b: the
\* object under that key is created or replaced.
PutObject(b, key, url, t) ==
    {x \in b : x.key # key}
    \cup {[key |-> key, body |-> url, size |-> ContentLength(url), last_modified |-> t,
           content_type |-> "video/mp4", acl |-> "public-read"]}

\* datetime.now().strftime("%Y%m%d_%H%M%S"): the local wall clock read to the second.
\* Nothing orders two readings (the local clock can be set back), and two readings
\* within one second are equal.
Timestamps == 0..MaxClock

\* What can happen inside upload_video_from_url.
UploadOutcomes == {"ok", "download_failed", "client_error", "unexpected"}

\* Mutant: the object is created before the download, which then fails.
upload_video_from_url_WriteFirst(url, vid, b) ==
    {IF o = "ok"
     THEN [outcome |-> o, timestamp |-> t, raised |-> FALSE, s3_url |-> S3Url(S3Key(t, vid)),
           bucket |-> PutObject(b, S3Key(t, vid), url, t)]
     ELSE [outcome |-> o, timestamp |-> t, raised |-> FALSE, s3_url |-> None,
           bucket |-> IF o = "download_failed" THEN PutObject(b, S3Key(t, vid), None, t)
                      ELSE b] :
        o \in UploadOutcomes, t \in Timestamps}

\* Mutant: the last handler logs the unexpected error and raises it again.
upload_video_from_url_Reraises(url, vid, b) ==
    {IF o = "ok"
     THEN [outcome |-> o, timestamp |-> t, raised |-> FALSE, s3_url |-> S3Url(S3Key(t, vid)),
           bucket |-> PutObject(b, S3Key(t, vid), url, t)]
     ELSE [outcome |-> o, timestamp |-> t, raised |-> (o = "unexpected"), s3_url |-> None,
           bucket |-> b] :
        o \in UploadOutcomes, t \in Timestamps}

\* upload_video_from_url(video_url, video_id) on bucket b: every way the call can go,
\* each with the second read from the clock, the value returned, whether the call
\* raised, and the bucket afterwards.  The download comes first and the write is made
\* only after it succeeded; every exception is caught and turned into None.
upload_video_from_url(url, vid, b) ==
    {IF o = "ok"
     THEN [outcome |-> o, timestamp |-> t, raised |-> FALSE, s3_url |-> S3Url(S3Key(t, vid)),
           bucket |-> PutObject(b, S3Key(t, vid), url, t)]
     ELSE [outcome |-> o, timestamp |-> t, raised |-> FALSE, s3_url |-> None, bucket |-> b] :
        o \in UploadOutcomes, t \in Timestamps}

\* The keys a client may name: those the uploads of this specification can write.
StorageKeys == {S3Key(t, vid) : t \in Timestamps, vid \in VideoIds}

StorageOutcomes == {"ok", "client_error", "unexpected"}

\* Mutant: the call is reported as a success whatever the provider answered.
delete_video_AlwaysTrue(video_key, b) ==
    {IF o = "ok"
     THEN [outcome |-> o, raised |-> FALSE, success |-> TRUE,
           bucket |-> {x \in b : x.key # video_key}]
     ELSE [outcome |-> o, raised |-> FALSE, success |-> TRUE, bucket |-> b] :
        o \in StorageOutcomes}

\* delete_video(video_key) on bucket b: every way the call can go, each with the
\* value returned, whether the call raised, and the bucket afterwards.  The provider
\* answers delete_object without error for a key it does not hold.
delete_video(video_key, b) ==
    {IF o = "ok"
     THEN [outcome |-> o, raised |-> FALSE, success |-> TRUE,
           bucket |-> {x \in b : x.key # video_key}]
     ELSE [outcome |-> o, raised |-> FALSE, success |-> FALSE, bucket |-> b] :
        o \in StorageOutcomes}

\* The provider lists keys in ascending order: by timestamp, then by job id.
VidIndex(vid) == CHOOSE i \in 1..Len(VidNames) : Str(VidNames[i]) = vid
KeyLeq(k1, k2) ==
    \/ k1.timestamp < k2.timestamp
    \/ k1.timestamp = k2.timestamp /\ VidIndex(k1.video_id) <= VidIndex(k2.video_id)

\* response['Contents'] of list_objects_v2 for the objects objs.
RECURSIVE Contents(_)
Contents(objs) ==
    IF objs = {} THEN <<>>
    ELSE LET first == CHOOSE x \in objs : \A y \in objs : KeyLeq(x.key, y.key)
         IN  <<first>> \o Contents(objs \ {first})

\* The entry list_videos builds for one listed object.
VideoEntry(x) ==
    [key |-> x.key, url |-> S3Url(x.key), size |-> x.size, last_modified |-> x.last_modified]

\* Mutant: the unexpected error is logged and raised again.
list_videos_Reraises(prefix, b) ==
    {IF o = "ok"
     THEN [outcome |-> o, raised |-> FALSE,
           videos |-> LET listed == Contents({x \in b : x.key.prefix = prefix})
                      IN  [i \in 1..Len(listed) |-> VideoEntry(listed[i])]]
     ELSE [outcome |-> o, raised |-> (o = "unexpected"), videos |-> <<>>] :
        o \in StorageOutcomes}

\* list_videos(prefix) on bucket b: every way the call can go, each with the list
\* returned and whether the call raised.
list_videos(prefix, b) ==
    {IF o = "ok"
     THEN [outcome |-> o, raised |-> FALSE,
           videos |-> LET listed == Contents({x \in b : x.key.prefix = prefix})
                      IN  [i \in 1..Len(listed) |-> VideoEntry(listed[i])]]
     ELSE [outcome |-> o, raised |-> FALSE, videos |-> <<>>] :
        o \in StorageOutcomes}

\* Mutant: the unexpected error of the probe is raised again.
check_connection_Reraises ==
    {[outcome |-> o, raised |-> (o = "unexpected"), reachable |-> (o = "ok")] :
        o \in StorageOutcomes}

\* check_connection(): head_bucket on the configured bucket; True when it answered,
\* False when it raised.
check_connection ==
    {[outcome |-> o, raised |-> FALSE, reachable |-> (o = "ok")] : o \in StorageOutcomes}

\* ----------------------------------------------------------- provider
ProviderStatuses == {"completed", "failed", "error", "processing", "Completed",
                     "waiting", "<missing>"}

\* The outcomes of GET video_status.get for a job: requests.get raises, the body is
\* not JSON, the status code is not 200, or a 200 body carrying data.status and
\* data.video_url (video_url is read only when the status is "completed").
PollResponses(vid) ==
    {[kind |-> k, status |-> "<missing>", video_url |-> None] :
        k \in {"exception", "badjson", "http_error"}}
    \cup {[kind |-> "ok", status |-> s, video_url |-> None] : s \in ProviderStatuses}
    \cup {[kind |-> "ok", status |-> "completed", video_url |-> u] :
        u \in {EmptyStr, RemoteUrl(vid)}}

\* The outcomes of POST video/generate.
SubmitResponses ==
    {[kind |-> k, video_id |-> None] : k \in {"exception", "badjson", "http_error"}}
    \cup {[kind |-> "ok", video_id |-> v] : v \in VideoIds \cup {None, EmptyStr}}

\* ------------------------------------------------------------ responses
\* HeyGenResponse declares video_id, status, message, video_url, estimated_time (and
\* a defaulted timestamp).  It declares no s3_url field, and a pydantic model ignores
\* keyword arguments it does not declare, so the s3_url argument is dropped.
HeyGenResponse(vid, status, message, video_url, s3_url, estimated_time) ==
    [video_id |-> vid, status |-> status, message |-> message,
     video_url |-> video_url, estimated_time |-> estimated_time]

\* A handler's return value, sent with status 200.
Ok200(body) == [code |-> 200, body |-> body]

\* An exception that is not an HTTPException, rendered by general_exception_handler.
InternalServerError == [code |-> 500, body |-> [error |-> "Internal server error"]]

\* raise HTTPException(status_code, detail), rendered by http_exception_handler.
HttpError(status_code, detail) ==
    [code |-> status_code, body |-> [error |-> detail, status_code |-> status_code]]

NoResp == [code |-> 0, body |-> None]

\* ------------------------------------------------------------- requests
\* The JSON bodies a client may post to the two submit routes: with a narration
\* text, with text null, and without the text member.
Missing == [kind |-> "missing"]
RequestBodies == {[text |-> t] : t \in {Str("Hello"), None, Missing}}

\* Mutant: text is declared Optional[str] = None.
ValidHeyGenRequest_TextOptional(body) == body.text.kind \in {"str", "None", "missing"}

\* HeyGenRequest: text: str = Field(...) is required and must be a string; the other
\* fields have defaults.
ValidHeyGenRequest(body) == body.text.kind = "str"

NoRequest == [route |-> "none"]

\* FastAPI's answer to a body that does not validate, made before the handler runs.
RequestValidationError == [code |-> 422, body |-> [detail |-> "validation error"]]

\* The X-Api-Key headers a client may send: none, an empty one, and a key.
ApiKeyHeaders == {None, EmptyStr, Str("client-key")}

\* settings.google_api_key
google_api_key == Str("settings.google_api_key")

\* Mutant: a request without a key is refused.
get_api_key_RequiresHeader(header) ==
    [raised |-> ~Truthy(header), api_key |-> header]

\* get_api_key(x_api_key): return x_api_key or settings.google_api_key.
get_api_key(header) ==
    [raised |-> FALSE, api_key |-> IF Truthy(header) THEN header ELSE google_api_key]

\* ---------------------------------------------------------- observations
NoPoll == [kind |-> "none", status |-> "<missing>", video_url |-> None]
NoSubmit == [kind |-> "none", video_id |-> None]
NotCalled == [kind |-> "not_called"]
\* The record of one call upload_video_from_url(url, vid) that went as `up`.
Called(url, vid, up) ==
    [kind |-> "called", video_url |-> url, video_id |-> vid, outcome |-> up.outcome,
     timestamp |-> up.timestamp, raised |-> up.raised, s3_url |-> up.s3_url]

\* A 200 answer whose data.status is terminal, and one whose status is not.
TerminalStatus(p) == p.kind = "ok" /\ p.status \in {"completed", "failed", "error"}
ProcessingStatus(p) == p.kind = "ok" /\ p.status \notin {"completed", "failed", "error"}
\* A transport or protocol error: the request raised, the body did not parse, or the
\* answer was not a 200.
ErrorPoll(p) == p.kind \in {"exception", "badjson", "http_error"}

\* What a request has done so far.  submits, polls, archives: the calls made to the
\* provider's submit, the provider's status and upload_video_from_url; slept: the
\* seconds spent suspended; last, at: the latest poll answer and the elapsed time at
\* which it was asked; n: the number of answers so far while all of them carried a
\* non-terminal status (-1 once an error answer came before any terminal one);
\* term: a terminal status was answered; exit, video_url, s3_url: why the waiter
\* returned and with which tuple; upload: the latest upload call; submit: the answer
\* to the submit; deleted, listed, probed: the call of delete_video, list_videos or
\* check_connection made; abandoned: the client has dropped the connection.
Obs0 == [submits |-> 0, polls |-> 0, slept |-> 0, n |-> 0, term |-> FALSE, archives |-> 0,
         last |-> NoPoll, at |-> 0, exit |-> "none", video_url |-> None, s3_url |-> None,
         upload |-> NotCalled, submit |-> NoSubmit, deleted |-> NotCalled,
         listed |-> NotCalled, probed |-> NotCalled, abandoned |-> FALSE]

\* The observations after one more poll, asked at elapsed time wt and answered p.
Polled(o, p, wt) ==
    [o EXCEPT !.polls = @ + 1, !.last = p, !.at = wt,
              !.n = IF o.term \/ @ < 0 THEN @
                    ELSE IF ProcessingStatus(p) THEN @ + 1
                    ELSE IF TerminalStatus(p) THEN @
                    ELSE -1,
              !.term = @ \/ TerminalStatus(p)]

Init ==
    /\ pc = [r \in Reqs |-> "idle"]
    /\ handler = [r \in Reqs |-> "none"]
    /\ video_id = [r \in Reqs |-> None]
    /\ max_wait_seconds = [r \in Reqs |-> 0]
    /\ wait_time = [r \in Reqs |-> 0]
    /\ obs = [r \in Reqs |-> Obs0]
    /\ resp = [r \in Reqs |-> NoResp]
    /\ bucket = {}
    /\ request = [r \in Reqs |-> NoRequest]
    /\ x_api_key = [r \in Reqs |-> None]
    /\ reported = [vid \in VideoIds |-> "none"]

\* ------------------------------------------------------------- submit
\* POST {heygen_base_url}/video/generate and the checks on its answer, shared by
\* generate_video and generate_video_and_wait: the job id on success, else the
\* HTTPException that reaches the client.  An HTTPException raised inside the try
\* block is caught by `except Exception` and raised again as a 500.
SubmitError(s) ==
    IF s.kind = "exception"
    THEN HttpError(500, [prefix |-> "Failed to generate video", cause |-> "request"])
    ELSE IF s.kind = "badjson"
    THEN HttpError(500, [prefix |-> "Failed to generate video",
                         cause |-> "Invalid JSON response from HeyGen"])
    ELSE IF s.kind # "ok"
    THEN HttpError(500, [prefix |-> "Failed to generate video",
                         cause |-> "HeyGen API error"])
    ELSE HttpError(500, [prefix |-> "Failed to generate video",
                         cause |-> "Failed to get video_id from HeyGen"])

\* Mutant: a 200 answer is accepted without looking for data.video_id.
SubmitSucceeds_NoIdCheck(s) == s.kind = "ok"

SubmitSucceeds(s) == s.kind = "ok" /\ Truthy(s.video_id)

MsgStarted == "Video generation started successfully. Use /status/{video_id} to check completion and get video URLs."
MsgCompleted == "Video generation completed successfully"
MsgFailedOrTimedOut == "Video generation failed or timed out"
MsgStatusCompleted == "Video generation completed and uploaded to S3"
MsgStatusFailed == "Video generation failed"
MsgStatusProcessing == "Video is still being generated"

\* generate_video's return value after a successful submit.
GenerateResponse(vid) ==
    Ok200(HeyGenResponse(vid, "processing", MsgStarted, None, None, EstimatedTimeGenerate))

\* -------------------------------------------------------------- waiter
\* Mutant: the loop runs once more when the elapsed time equals the deadline.
LoopCondition_Inclusive(wt, max) == wt <= max

\* Mutant: the loop also stops after two rounds, whatever the deadline.
LoopCondition_TwoRounds(wt, max) == wt < max /\ wt < 2 * check_interval

\* while wait_time < max_wait_seconds
LoopCondition(wt, max) == wt < max

\* Mutant: only "failed" is read as a failure, as in the stand-alone script.
WaiterStatus_NoError(status) ==
    IF status = "completed" THEN "Completed"
    ELSE IF status = "failed" THEN "Failed"
    ELSE "Processing"

\* The waiter's reading of data.status in a 200 answer.
WaiterStatus(status) ==
    IF status = "completed" THEN "Completed"
    ELSE IF status = "failed" \/ status = "error" THEN "Failed"
    ELSE "Processing"

\* Mutant: a "completed" answer without a video_url does not end the wait.
WaiterOnPoll_WaitForUrl(p, vid, b) ==
    IF p.kind = "ok" /\ WaiterStatus(p.status) = "Completed" /\ Truthy(p.video_url)
    THEN {[next |-> "return", exit |-> "completed", video_url |-> p.video_url,
           s3_url |-> up.s3_url, upload |-> Called(p.video_url, vid, up),
           bucket |-> up.bucket] :
               up \in upload_video_from_url(p.video_url, vid, b)}
    ELSE IF p.kind = "ok" /\ WaiterStatus(p.status) = "Failed"
    THEN {[next |-> "return", exit |-> "failed", video_url |-> None, s3_url |-> None,
           upload |-> NotCalled, bucket |-> b]}
    ELSE {[next |-> "sleep", exit |-> "none", video_url |-> None, s3_url |-> None,
           upload |-> NotCalled, bucket |-> b]}

\* Mutant: a failed upload makes the waiter return (None, None).
WaiterOnPoll_FailOnArchiveError(p, vid, b) ==
    IF p.kind = "ok" /\ WaiterStatus(p.status) = "Completed" /\ Truthy(p.video_url)
    THEN {[next |-> "return", exit |-> "completed",
           video_url |-> IF up.s3_url = None THEN None ELSE p.video_url,
           s3_url |-> up.s3_url, upload |-> Called(p.video_url, vid, up),
           bucket |-> up.bucket] :
               up \in upload_video_from_url(p.video_url, vid, b)}
    ELSE IF p.kind = "ok" /\ WaiterStatus(p.status) = "Completed"
    THEN {[next |-> "return", exit |-> "completed", video_url |-> p.video_url,
           s3_url |-> None, upload |-> NotCalled, bucket |-> b]}
    ELSE IF p.kind = "ok" /\ WaiterStatus(p.status) = "Failed"
    THEN {[next |-> "return", exit |-> "failed", video_url |-> None, s3_url |-> None,
           upload |-> NotCalled, bucket |-> b]}
    ELSE {[next |-> "sleep", exit |-> "none", video_url |-> None, s3_url |-> None,
           upload |-> NotCalled, bucket |-> b]}

\* Mutant: the loop has no try/except, so an exception of a poll ends the wait.
WaiterOnPoll_ErrorEndsWait(p, vid, b) ==
    IF p.kind = "exception" \/ p.kind = "badjson"
    THEN {[next |-> "return", exit |-> "failed", video_url |-> None, s3_url |-> None,
           upload |-> NotCalled, bucket |-> b]}
    ELSE IF p.kind = "ok" /\ WaiterStatus(p.status) = "Completed"
    THEN IF Truthy(p.video_url)
         THEN {[next |-> "return", exit |-> "completed", video_url |-> p.video_url,
                s3_url |-> up.s3_url, upload |-> Called(p.video_url, vid, up),
                bucket |-> up.bucket] :
                    up \in upload_video_from_url(p.video_url, vid, b)}
         ELSE {[next |-> "return", exit |-> "completed", video_url |-> p.video_url,
                s3_url |-> None, upload |-> NotCalled, bucket |-> b]}
    ELSE IF p.kind = "ok" /\ WaiterStatus(p.status) = "Failed"
    THEN {[next |-> "return", exit |-> "failed", video_url |-> None, s3_url |-> None,
           upload |-> NotCalled, bucket |-> b]}
    ELSE {[next |-> "sleep", exit |-> "none", video_url |-> None, s3_url |-> None,
           upload |-> NotCalled, bucket |-> b]}

\* Mutant: a completed job is uploaded whether or not the answer carries a video_url.
WaiterOnPoll_ArchiveWithoutUrl(p, vid, b) ==
    IF p.kind = "exception" \/ p.kind = "badjson"
    THEN {[next |-> "sleep", exit |-> "none", video_url |-> None, s3_url |-> None,
           upload |-> NotCalled, bucket |-> b]}
    ELSE IF p.kind = "ok" /\ WaiterStatus(p.status) = "Completed"
    THEN {[next |-> "return", exit |-> "completed", video_url |-> p.video_url,
           s3_url |-> up.s3_url, upload |-> Called(p.video_url, vid, up),
           bucket |-> up.bucket] :
               up \in upload_video_from_url(p.video_url, vid, b)}
    ELSE IF p.kind = "ok" /\ WaiterStatus(p.status) = "Failed"
    THEN {[next |-> "return", exit |-> "failed", video_url |-> None, s3_url |-> None,
           upload |-> NotCalled, bucket |-> b]}
    ELSE {[next |-> "sleep", exit |-> "none", video_url |-> None, s3_url |-> None,
           upload |-> NotCalled, bucket |-> b]}

\* One iteration of the waiter's loop body on poll answer p: every way it can go,
\* each with whether the waiter returns or suspends, the tuple it returns, the upload
\* it made and the bucket afterwards.
WaiterOnPoll(p, vid, b) ==
    IF p.kind = "exception" \/ p.kind = "badjson"
    THEN {[next |-> "sleep", exit |-> "none", video_url |-> None, s3_url |-> None,
           upload |-> NotCalled, bucket |-> b]}
    ELSE IF p.kind = "ok" /\ WaiterStatus(p.status) = "Completed"
    THEN IF Truthy(p.video_url)
         THEN {[next |-> "return", exit |-> "completed", video_url |-> p.video_url,
                s3_url |-> up.s3_url, upload |-> Called(p.video_url, vid, up),
                bucket |-> up.bucket] :
                    up \in upload_video_from_url(p.video_url, vid, b)}
         ELSE {[next |-> "return", exit |-> "completed", video_url |-> p.video_url,
                s3_url |-> None, upload |-> NotCalled, bucket |-> b]}
    ELSE IF p.kind = "ok" /\ WaiterStatus(p.status) = "Failed"
    THEN {[next |-> "return", exit |-> "failed", video_url |-> None, s3_url |-> None,
           upload |-> NotCalled, bucket |-> b]}
    ELSE {[next |-> "sleep", exit |-> "none", video_url |-> None, s3_url |-> None,
           upload |-> NotCalled, bucket |-> b]}

\* Mutant: the handler tests the waiter's URL against None only.
GenerateAndWaitResponse_NotNone(vid, video_url, s3_url) ==
    IF video_url # None
    THEN Ok200(HeyGenResponse(vid, "completed", MsgCompleted, video_url, s3_url, 0))
    ELSE Ok200(HeyGenResponse(vid, "failed", MsgFailedOrTimedOut, None, None, 0))

\* generate_video_and_wait's return value from the waiter's tuple.
GenerateAndWaitResponse(vid, video_url, s3_url) ==
    IF Truthy(video_url)
    THEN Ok200(HeyGenResponse(vid, "completed", MsgCompleted, video_url, s3_url, 0))
    ELSE Ok200(HeyGenResponse(vid, "failed", MsgFailedOrTimedOut, None, None, 0))

\* ------------------------------------------------------------- actions
\* The requests of this specification are issued one at a time: a request starts
\* when no other is in flight.  The handlers share nothing but the bucket, and each
\* call on it is one blocking call.
Quiet == \A q \in Reqs : pc[q] = "idle"

\* Mutant: the handler awaits wait_for_video_completion after the submit (the call
\* that the source keeps commented out).
generate_video_Waits(r) ==
    /\ pc[r] = "idle"
    /\ \E s \in SubmitResponses :
        /\ handler' = [handler EXCEPT ![r] = "generate"]
        /\ obs' = [obs EXCEPT ![r] = [Obs0 EXCEPT !.submits = 1, !.submit = s]]
        /\ IF SubmitSucceeds(s)
           THEN /\ pc' = [pc EXCEPT ![r] = "loop"]
                /\ video_id' = [video_id EXCEPT ![r] = s.video_id]
                /\ max_wait_seconds' = [max_wait_seconds EXCEPT ![r] = DefaultMaxWait]
                /\ resp' = resp
           ELSE /\ pc' = [pc EXCEPT ![r] = "done"]
                /\ video_id' = [video_id EXCEPT ![r] = None]
                /\ max_wait_seconds' = max_wait_seconds
                /\ resp' = [resp EXCEPT ![r] = SubmitError(s)]
    /\ wait_time' = [wait_time EXCEPT ![r] = 0]
    /\ UNCHANGED bucket

\* POST /heygen/generate: the whole handler.
generate_video(r) ==
    /\ pc[r] = "idle"
    /\ \E s \in SubmitResponses :
        /\ pc' = [pc EXCEPT ![r] = "done"]
        /\ handler' = [handler EXCEPT ![r] = "generate"]
        /\ video_id' = [video_id EXCEPT ![r] = IF SubmitSucceeds(s) THEN s.video_id ELSE None]
        /\ obs' = [obs EXCEPT ![r] = [Obs0 EXCEPT !.submits = 1, !.submit = s]]
        /\ resp' = [resp EXCEPT ![r] =
                        IF SubmitSucceeds(s) THEN GenerateResponse(s.video_id)
                        ELSE SubmitError(s)]
    /\ UNCHANGED <<max_wait_seconds, wait_time, bucket>>

\* POST /heygen/generate-and-wait up to the call of wait_for_video_completion.
generate_video_and_wait(r) ==
    /\ pc[r] = "idle"
    /\ \E s \in SubmitResponses :
        /\ handler' = [handler EXCEPT ![r] = "generate_and_wait"]
        /\ obs' = [obs EXCEPT ![r] = [Obs0 EXCEPT !.submits = 1, !.submit = s]]
        /\ IF SubmitSucceeds(s)
           THEN /\ pc' = [pc EXCEPT ![r] = "loop"]
                /\ video_id' = [video_id EXCEPT ![r] = s.video_id]
                /\ max_wait_seconds' = [max_wait_seconds EXCEPT ![r] = DefaultMaxWait]
                /\ resp' = resp
           ELSE /\ pc' = [pc EXCEPT ![r] = "done"]
                /\ video_id' = [video_id EXCEPT ![r] = None]
                /\ max_wait_seconds' = max_wait_seconds
                /\ resp' = [resp EXCEPT ![r] = SubmitError(s)]
    /\ wait_time' = [wait_time EXCEPT ![r] = 0]
    /\ UNCHANGED bucket

\* The waiter at the head of its loop: leave the loop on the deadline, else poll once
\* and either return to the handler, which builds the response, or suspend.
WaiterPoll(r) ==
    /\ pc[r] = "loop"
    /\ IF LoopCondition(wait_time[r], max_wait_seconds[r])
       THEN \E p \in PollResponses(video_id[r]) : \E w \in WaiterOnPoll(p, video_id[r], bucket) :
            LET seen == [Polled(obs[r], p, wait_time[r]) EXCEPT
                            !.archives = IF w.upload = NotCalled THEN @ ELSE @ + 1,
                            !.upload = w.upload,
                            !.exit = w.exit,
                            !.video_url = w.video_url,
                            !.s3_url = w.s3_url]
            IN  /\ obs' = [obs EXCEPT ![r] = seen]
                /\ bucket' = w.bucket
                /\ IF w.next = "return"
                   THEN /\ pc' = [pc EXCEPT ![r] = "done"]
                        /\ resp' = [resp EXCEPT ![r] =
                                GenerateAndWaitResponse(video_id[r], w.video_url, w.s3_url)]
                   ELSE /\ pc' = [pc EXCEPT ![r] = "sleep"]
                        /\ resp' = resp
       ELSE /\ obs' = [obs EXCEPT ![r] = [@ EXCEPT !.exit = "timeout"]]
            /\ pc' = [pc EXCEPT ![r] = "done"]
            /\ resp' = [resp EXCEPT ![r] = GenerateAndWaitResponse(video_id[r], None, None)]
            /\ bucket' = bucket
    /\ UNCHANGED <<handler, video_id, max_wait_seconds, wait_time, request, x_api_key, reported>>

\* Mutant: wait_time is a module-level counter that every waiter advances.
WaiterWake_SharedClock(r) ==
    /\ pc[r] = "sleep"
    /\ pc' = [pc EXCEPT ![r] = "loop"]
    /\ wait_time' = [q \in Reqs |->
                        IF pc[q] # "idle" THEN wait_time[q] + check_interval ELSE wait_time[q]]
    /\ obs' = [obs EXCEPT ![r] = [@ EXCEPT !.slept = @ + check_interval]]
    /\ UNCHANGED <<handler, video_id, max_wait_seconds, resp, bucket, request, x_api_key, reported>>

\* await asyncio.sleep(check_interval) returns; wait_time += check_interval.
WaiterWake(r) ==
    /\ pc[r] = "sleep"
    /\ pc' = [pc EXCEPT ![r] = "loop"]
    /\ wait_time' = [wait_time EXCEPT ![r] = @ + check_interval]
    /\ obs' = [obs EXCEPT ![r] = [@ EXCEPT !.slept = @ + check_interval]]
    /\ UNCHANGED <<handler, video_id, max_wait_seconds, resp, bucket, request, x_api_key, reported>>

\* ------------------------------------------------------ status handler
\* Mutant: the status is compared without regard to case.
HandlerStatus_CaseInsensitive(status) ==
    IF status \in {"completed", "Completed"} THEN "Completed"
    ELSE IF status = "failed" \/ status = "error" THEN "Failed"
    ELSE "Processing"

\* get_video_status's reading of data.status.
HandlerStatus(status) ==
    IF status = "completed" THEN "Completed"
    ELSE IF status = "failed" \/ status = "error" THEN "Failed"
    ELSE "Processing"

\* The HTTPException of get_video_status: requests.get raised, or an HTTPException
\* raised inside the try block was caught by `except Exception` and raised again.
StatusError(p) ==
    IF p.kind = "exception"
    THEN HttpError(500, [prefix |-> "Failed to check video status", cause |-> "request"])
    ELSE IF p.kind = "badjson"
    THEN HttpError(500, [prefix |-> "Failed to check video status",
                         cause |-> "Invalid JSON response from HeyGen status API"])
    ELSE HttpError(500, [prefix |-> "Failed to check video status",
                         cause |-> "HeyGen status API error"])

\* Mutant: the upload is made outside the try/except and its failure is raised.
StatusOnPoll_FailOnArchiveError(p, vid, b) ==
    IF p.kind # "ok"
    THEN {[resp |-> StatusError(p), upload |-> NotCalled, bucket |-> b]}
    ELSE IF HandlerStatus(p.status) = "Completed"
    THEN IF Truthy(p.video_url)
         THEN {[resp |-> IF up.s3_url = None
                         THEN HttpError(500, [prefix |-> "Failed to check video status",
                                              cause |-> "Failed to upload video to S3"])
                         ELSE Ok200(HeyGenResponse(vid, "completed", MsgStatusCompleted,
                                                   p.video_url, up.s3_url, 0)),
                upload |-> Called(p.video_url, vid, up), bucket |-> up.bucket] :
                    up \in upload_video_from_url(p.video_url, vid, b)}
         ELSE {[resp |-> Ok200(HeyGenResponse(vid, "completed", MsgStatusCompleted,
                                              p.video_url, None, 0)),
                upload |-> NotCalled, bucket |-> b]}
    ELSE IF HandlerStatus(p.status) = "Failed"
    THEN {[resp |-> Ok200(HeyGenResponse(vid, "failed", MsgStatusFailed, None, None, 0)),
           upload |-> NotCalled, bucket |-> b]}
    ELSE {[resp |-> Ok200(HeyGenResponse(vid, "processing", MsgStatusProcessing, None, None,
                                         EstimatedTimeProcessing)),
           upload |-> NotCalled, bucket |-> b]}

\* Mutant: a poll that could not be made or read is reported as a failed job.
StatusOnPoll_ErrorAsFailed(p, vid, b) ==
    IF p.kind # "ok" \/ HandlerStatus(p.status) = "Failed"
    THEN {[resp |-> Ok200(HeyGenResponse(vid, "failed", MsgStatusFailed, None, None, 0)),
           upload |-> NotCalled, bucket |-> b]}
    ELSE IF HandlerStatus(p.status) = "Completed"
    THEN IF Truthy(p.video_url)
         THEN {[resp |-> Ok200(HeyGenResponse(vid, "completed", MsgStatusCompleted,
                                              p.video_url, up.s3_url, 0)),
                upload |-> Called(p.video_url, vid, up), bucket |-> up.bucket] :
                    up \in upload_video_from_url(p.video_url, vid, b)}
         ELSE {[resp |-> Ok200(HeyGenResponse(vid, "completed", MsgStatusCompleted,
                                              p.video_url, None, 0)),
                upload |-> NotCalled, bucket |-> b]}
    ELSE {[resp |-> Ok200(HeyGenResponse(vid, "processing", MsgStatusProcessing, None, None,
                                         EstimatedTimeProcessing)),
           upload |-> NotCalled, bucket |-> b]}

\* get_video_status on poll answer p: every way it can go, each with the response,
\* the upload made and the bucket afterwards.
StatusOnPoll(p, vid, b) ==
    IF p.kind # "ok"
    THEN {[resp |-> StatusError(p), upload |-> NotCalled, bucket |-> b]}
    ELSE IF HandlerStatus(p.status) = "Completed"
    THEN IF Truthy(p.video_url)
         THEN {[resp |-> Ok200(HeyGenResponse(vid, "completed", MsgStatusCompleted,
                                              p.video_url, up.s3_url, 0)),
                upload |-> Called(p.video_url, vid, up), bucket |-> up.bucket] :
                    up \in upload_video_from_url(p.video_url, vid, b)}
         ELSE {[resp |-> Ok200(HeyGenResponse(vid, "completed", MsgStatusCompleted,
                                              p.video_url, None, 0)),
                upload |-> NotCalled, bucket |-> b]}
    ELSE IF HandlerStatus(p.status) = "Failed"
    THEN {[resp |-> Ok200(HeyGenResponse(vid, "failed", MsgStatusFailed, None, None, 0)),
           upload |-> NotCalled, bucket |-> b]}
    ELSE {[resp |-> Ok200(HeyGenResponse(vid, "processing", MsgStatusProcessing, None, None,
                                         EstimatedTimeProcessing)),
           upload |-> NotCalled, bucket |-> b]}

\* GET /heygen/status/{video_id}: the whole handler.
get_video_status(r) ==
    /\ pc[r] = "idle"
    /\ \E vid \in VideoIds : \E p \in PollResponses(vid) : \E h \in StatusOnPoll(p, vid, bucket) :
            /\ pc' = [pc EXCEPT ![r] = "done"]
            /\ handler' = [handler EXCEPT ![r] = "status"]
            /\ video_id' = [video_id EXCEPT ![r] = vid]
            /\ obs' = [obs EXCEPT ![r] =
                        [Polled(Obs0, p, 0) EXCEPT
                            !.upload = h.upload,
                            !.archives = IF h.upload = NotCalled THEN 0 ELSE 1]]
            /\ resp' = [resp EXCEPT ![r] = h.resp]
            /\ bucket' = h.bucket
            /\ request' = [request EXCEPT ![r] = [route |-> "status", video_id |-> vid]]
    /\ UNCHANGED <<max_wait_seconds, wait_time>>

\* ----------------------------------------------------- storage handlers
\* delete_s3_video's answer to the result d of delete_video.  The HTTPException(404)
\* is raised inside the try block, so `except Exception` catches it and raises a 500
\* whose detail quotes it.
DeleteResponse(video_key, d) ==
    IF d.raised
    THEN HttpError(500, [prefix |-> "Failed to delete video", cause |-> d.outcome])
    ELSE IF d.success
    THEN Ok200([message |-> [prefix |-> "Video ", key |-> video_key,
                             suffix |-> " deleted successfully"]])
    ELSE HttpError(500, [prefix |-> "Failed to delete video",
                         cause |-> "Video not found or could not be deleted"])

\* DELETE /heygen/videos/{video_key}: the whole handler.
delete_s3_video(r) ==
    /\ pc[r] = "idle"
    /\ \E video_key \in StorageKeys : \E d \in delete_video(video_key, bucket) :
            /\ pc' = [pc EXCEPT ![r] = "done"]
            /\ handler' = [handler EXCEPT ![r] = "delete"]
            /\ request' = [request EXCEPT ![r] = [route |-> "delete", video_key |-> video_key]]
            /\ obs' = [obs EXCEPT ![r] =
                        [Obs0 EXCEPT !.deleted =
                            [kind |-> "called", video_key |-> video_key, outcome |-> d.outcome,
                             raised |-> d.raised, success |-> d.success]]]
            /\ resp' = [resp EXCEPT ![r] = DeleteResponse(video_key, d)]
            /\ bucket' = d.bucket
    /\ UNCHANGED <<video_id, max_wait_seconds, wait_time>>

\* list_s3_videos's answer to the result l of list_videos.
ListResponse(l) ==
    IF l.raised
    THEN HttpError(500, [prefix |-> "Failed to list videos", cause |-> l.outcome])
    ELSE Ok200([videos |-> l.videos, count |-> Len(l.videos)])

\* GET /heygen/videos: the whole handler.
list_s3_videos(r) ==
    /\ pc[r] = "idle"
    /\ \E l \in list_videos("heygen_videos/", bucket) :
            /\ pc' = [pc EXCEPT ![r] = "done"]
            /\ handler' = [handler EXCEPT ![r] = "list"]
            /\ request' = [request EXCEPT ![r] = [route |-> "list"]]
            /\ obs' = [obs EXCEPT ![r] =
                        [Obs0 EXCEPT !.listed =
                            [kind |-> "called", outcome |-> l.outcome, raised |-> l.raised,
                             videos |-> l.videos]]]
            /\ resp' = [resp EXCEPT ![r] = ListResponse(l)]
    /\ UNCHANGED <<video_id, max_wait_seconds, wait_time, bucket>>

\* heygen_health_check's answer to the result c of check_connection.  The handler has
\* no try block: an exception from the probe would reach general_exception_handler.
HealthResponse(c) ==
    IF c.raised THEN InternalServerError
    ELSE Ok200([status |-> "healthy", service |-> "heygen", s3_connection |-> c.reachable])

\* GET /heygen/health: the whole handler.  It has no get_api_key dependency.
heygen_health_check(r) ==
    /\ pc[r] = "idle"
    /\ \E c \in check_connection :
            /\ pc' = [pc EXCEPT ![r] = "done"]
            /\ handler' = [handler EXCEPT ![r] = "health"]
            /\ request' = [request EXCEPT ![r] = [route |-> "health"]]
            /\ obs' = [obs EXCEPT ![r] =
                        [Obs0 EXCEPT !.probed =
                            [kind |-> "called", outcome |-> c.outcome, raised |-> c.raised,
                             reachable |-> c.reachable]]]
            /\ resp' = [resp EXCEPT ![r] = HealthResponse(c)]
    /\ UNCHANGED <<video_id, max_wait_seconds, wait_time, bucket, x_api_key, reported>>

\* The response is sent and the request is over.
Respond(r) ==
    /\ pc[r] = "done"
    /\ pc' = [pc EXCEPT ![r] = "idle"]
    /\ handler' = [handler EXCEPT ![r] = "none"]
    /\ video_id' = [video_id EXCEPT ![r] = None]
    /\ max_wait_seconds' = [max_wait_seconds EXCEPT ![r] = 0]
    /\ wait_time' = [wait_time EXCEPT ![r] = 0]
    /\ obs' = [obs EXCEPT ![r] = Obs0]
    /\ resp' = [resp EXCEPT ![r] = NoResp]
    /\ request' = [request EXCEPT ![r] = NoRequest]
    /\ x_api_key' = [x_api_key EXCEPT ![r] = None]
    /\ UNCHANGED <<bucket, reported>>

\* A request body that does not validate as HeyGenRequest: FastAPI answers 422 and
\* does not call the handler.
RejectBody(r, route, body) ==
    /\ pc[r] = "idle"
    /\ ~ValidHeyGenRequest(body)
    /\ pc' = [pc EXCEPT ![r] = "done"]
    /\ request' = [request EXCEPT ![r] = [route |-> route, body |-> body]]
    /\ resp' = [resp EXCEPT ![r] = RequestValidationError]
    /\ UNCHANGED <<handler, video_id, max_wait_seconds, wait_time, obs, bucket, x_api_key, reported>>

\* A request whose get_api_key dependency raised: the handler is not called and the
\* exception is rendered by http_exception_handler.
DependencyFails(r, route) ==
    /\ pc[r] = "idle"
    /\ pc' = [pc EXCEPT ![r] = "done"]
    /\ request' = [request EXCEPT ![r] = [route |-> route]]
    /\ resp' = [resp EXCEPT ![r] = HttpError(401, "get_api_key raised")]
    /\ UNCHANGED <<handler, video_id, max_wait_seconds, wait_time, obs, bucket, reported>>

\* GET /heygen/status/{video_id} arrives with some X-Api-Key header: the dependency
\* is resolved, then the handler is called.
GetStatus(r) ==
    \E header \in ApiKeyHeaders :
        /\ x_api_key' = [x_api_key EXCEPT ![r] = header]
        /\ IF get_api_key(header).raised
           THEN DependencyFails(r, "status")
           ELSE get_video_status(r) /\ UNCHANGED reported

\* DELETE /heygen/videos/{video_key} arrives with some X-Api-Key header.
DeleteVideo(r) ==
    \E header \in ApiKeyHeaders :
        /\ x_api_key' = [x_api_key EXCEPT ![r] = header]
        /\ IF get_api_key(header).raised
           THEN DependencyFails(r, "delete")
           ELSE delete_s3_video(r) /\ UNCHANGED reported

\* GET /heygen/videos arrives with some X-Api-Key header.
ListVideos(r) ==
    \E header \in ApiKeyHeaders :
        /\ x_api_key' = [x_api_key EXCEPT ![r] = header]
        /\ IF get_api_key(header).raised
           THEN DependencyFails(r, "list")
           ELSE list_s3_videos(r) /\ UNCHANGED reported

\* POST /heygen/generate arrives with some body: the handler runs on a valid one.
PostGenerate(r) ==
    \E body \in RequestBodies :
        \/ /\ ValidHeyGenRequest(body)
           /\ request' = [request EXCEPT ![r] = [route |-> "generate", body |-> body]]
           /\ UNCHANGED <<x_api_key, reported>>
           /\ generate_video(r)
        \/ RejectBody(r, "generate", body)

\* POST /heygen/generate-and-wait arrives with some body.
PostGenerateAndWait(r) ==
    \E body \in RequestBodies :
        \/ /\ ValidHeyGenRequest(body)
           /\ request' = [request EXCEPT ![r] = [route |-> "generate-and-wait", body |-> body]]
           /\ UNCHANGED <<x_api_key, reported>>
           /\ generate_video_and_wait(r)
        \/ RejectBody(r, "generate-and-wait", body)

Next ==
    \/ \E r \in Reqs : Quiet /\ PostGenerate(r)
    \/ \E r \in Reqs : Quiet /\ PostGenerateAndWait(r)
    \/ \E r \in Reqs : Quiet /\ GetStatus(r)
    \/ \E r \in Reqs : Quiet /\ DeleteVideo(r)
    \/ \E r \in Reqs : Quiet /\ ListVideos(r)
    \/ \E r \in Reqs : Quiet /\ heygen_health_check(r)
    \/ \E r \in Reqs : WaiterPoll(r)
    \/ \E r \in Reqs : WaiterWake(r)
    \/ \E r \in Reqs : Respond(r)

Spec == Init /\ [][Next]_vars

\* ------------------------------------------------- the waiter's deadline
\* The deadlines wait_for_video_completion is called with below: negative, zero, not
\* a multiple of the interval, and the thirty seconds of three rounds.
WaitDeadlines == {-10, 0, 15, 30}

\* wait_for_video_completion(vid, max) is called, for a job the submit of
\* generate_video_and_wait has returned: wait_time = 0 and the loop is entered.
CallWaiter(r, vid, max) ==
    /\ pc[r] = "idle"
    /\ pc' = [pc EXCEPT ![r] = "loop"]
    /\ handler' = [handler EXCEPT ![r] = "generate_and_wait"]
    /\ video_id' = [video_id EXCEPT ![r] = vid]
    /\ max_wait_seconds' = [max_wait_seconds EXCEPT ![r] = max]
    /\ wait_time' = [wait_time EXCEPT ![r] = 0]
    /\ obs' = [obs EXCEPT ![r] =
                [Obs0 EXCEPT !.submits = 1, !.submit = [kind |-> "ok", video_id |-> vid]]]
    /\ request' = [request EXCEPT ![r] =
                    [route |-> "generate-and-wait", body |-> [text |-> Str("Hello")]]]
    /\ UNCHANGED <<resp, bucket, x_api_key, reported>>

\* A wait for some job with some deadline.
wait_for_video_completion(r) ==
    \E vid \in VideoIds : \E max \in WaitDeadlines : CallWaiter(r, vid, max)

\* The client of a generate-and-wait request drops the connection while the handler
\* is in the waiter.  Neither generate_video_and_wait nor wait_for_video_completion
\* looks at the connection (no request.is_disconnected(), no cancellation), so
\* nothing of the handler changes.
Abandon(r) ==
    /\ pc[r] \in {"loop", "sleep"}
    /\ ~obs[r].abandoned
    /\ obs' = [obs EXCEPT ![r] = [@ EXCEPT !.abandoned = TRUE]]
    /\ UNCHANGED <<pc, handler, video_id, max_wait_seconds, wait_time, resp, bucket, request,
                   x_api_key, reported>>

\* One wait, with any of the deadlines and any answers of the provider and the
\* store, from its call to its return, the client staying or leaving.
NextDeadline ==
    \/ \E r \in Reqs : Quiet /\ wait_for_video_completion(r)
    \/ \E r \in Reqs : WaiterPoll(r)
    \/ \E r \in Reqs : WaiterWake(r)
    \/ \E r \in Reqs : Abandon(r)

\* The body of the loop is blocking code that runs to its next await, and
\* asyncio.sleep returns once its interval has passed: a waiter that can take a step
\* eventually takes it.
SpecDeadline ==
    /\ Init
    /\ [][NextDeadline]_vars
    /\ \A r \in Reqs : WF_vars(WaiterPoll(r)) /\ WF_vars(WaiterWake(r))

\* Deadlines of one round and of two rounds.
ShortDeadlines == {check_interval, 2 * check_interval}

\* -------------------------------------------------- what clients are told
\* The terminal status a response reports for a job, "none" when it reports none.
TerminalReport(response) ==
    IF response.code = 200 /\ response.body.status \in {"completed", "failed"}
    THEN response.body.status
    ELSE "none"

\* The response of a status or generate-and-wait request is sent and the request is
\* over; the first terminal status sent for a job is remembered.
Deliver(r) ==
    /\ pc[r] = "done"
    /\ pc' = [pc EXCEPT ![r] = "idle"]
    /\ handler' = [handler EXCEPT ![r] = "none"]
    /\ video_id' = [video_id EXCEPT ![r] = None]
    /\ max_wait_seconds' = [max_wait_seconds EXCEPT ![r] = 0]
    /\ wait_time' = [wait_time EXCEPT ![r] = 0]
    /\ obs' = [obs EXCEPT ![r] = Obs0]
    /\ resp' = [resp EXCEPT ![r] = NoResp]
    /\ request' = [request EXCEPT ![r] = NoRequest]
    /\ x_api_key' = [x_api_key EXCEPT ![r] = None]
    /\ reported' = IF reported[video_id[r]] = "none"
                   THEN [reported EXCEPT ![video_id[r]] = TerminalReport(resp[r])]
                   ELSE reported
    /\ UNCHANGED bucket

\* A wait for some job with a short deadline.
ShortWait(r) ==
    \E vid \in VideoIds : \E max \in ShortDeadlines : CallWaiter(r, vid, max)

\* Status requests and short waits for the same jobs, one after another.
NextLifecycle ==
    \/ \E r \in Reqs : Quiet /\ ShortWait(r)
    \/ \E r \in Reqs : Quiet /\ get_video_status(r) /\ UNCHANGED <<x_api_key, reported>>
    \/ \E r \in Reqs : WaiterPoll(r)
    \/ \E r \in Reqs : WaiterWake(r)
    \/ \E r \in Reqs : Deliver(r)

SpecLifecycle == Init /\ [][NextLifecycle]_vars

\* ------------------------------------------------------ concurrent waits
\* The jobs of the concurrent waits: one more than VideoIds, so that two waits can
\* be for different jobs.
ConcurrentJobs == {Str(VidNames[i]) : i \in 1..(NumVideoIds + 1)}

\* The requests in flight or answered.
Started == {q \in Reqs : pc[q] # "idle"}

\* A wait starts while at most one other request has started, for a job no other
\* request waits for.
ConcurrentWait(r) ==
    /\ Cardinality(Started) <= 1
    /\ \E vid \in ConcurrentJobs \ {video_id[q] : q \in Started} :
        \E max \in ShortDeadlines : CallWaiter(r, vid, max)

\* Two waits for different jobs, their steps interleaved in every way: a waiter
\* yields only in asyncio.sleep, so a step is one round of the loop up to its await.
NextConcurrent ==
    \/ \E r \in Reqs : ConcurrentWait(r)
    \/ \E r \in Reqs : WaiterPoll(r)
    \/ \E r \in Reqs : WaiterWake(r)

SpecConcurrent == Init /\ [][NextConcurrent]_vars

\* ================================================================ claims
\* Request r is served by generate-and-wait and its submit succeeded.
Waiting(r) == handler[r] = "generate_and_wait" /\ video_id[r] # None

\* C1 (as claimed): whenever a poll of a wait answers 200 with data.status exactly
\* "completed", the wait is over at once and the client of generate-and-wait gets
\* status "completed".
C1_CompletedPollAnswersCompleted ==
    \A r \in Reqs :
        (Waiting(r) /\ obs[r].last.kind = "ok" /\ obs[r].last.status = "completed")
        => /\ pc[r] = "done"
           /\ resp[r].code = 200
           /\ resp[r].body.status = "completed"

\* C2: a poll answered "failed" or "error" ends the wait in state Failed at once: the
\* waiter has returned (None, None), made no upload, and has suspended only between
\* the polls before that answer, so that it was the last poll and, when it was the
\* first one, the only poll.
C2_FailedPollEndsWaitAtOnce ==
    \A r \in Reqs :
        (Waiting(r) /\ obs[r].last.kind = "ok" /\ obs[r].last.status \in {"failed", "error"})
        => /\ pc[r] = "done"
           /\ obs[r].exit = "failed"
           /\ obs[r].video_url = None /\ obs[r].s3_url = None
           /\ obs[r].archives = 0 /\ obs[r].upload = NotCalled
           /\ obs[r].slept = check_interval * (obs[r].polls - 1)
           /\ wait_time[r] = obs[r].at
           /\ (obs[r].at = 0 => obs[r].polls = 1)

\* C2 witness: a wait ended by "error" at its third poll.
C2_Witness ==
    \E r \in Reqs :
        /\ Waiting(r) /\ pc[r] = "done"
        /\ obs[r].last.kind = "ok" /\ obs[r].last.status = "error"
        /\ obs[r].polls = 3

\* C3: when the answers of a wait are n non-terminal statuses followed by a terminal
\* one, the waiter returns on that answer having made exactly n+1 polls and having
\* been suspended n * check_interval seconds.
C3_PollsAreNPlusOne ==
    \A r \in Reqs :
        (Waiting(r) /\ obs[r].term /\ obs[r].n >= 0)
        => /\ pc[r] = "done"
           /\ obs[r].polls = obs[r].n + 1
           /\ obs[r].slept = obs[r].n * check_interval

\* C3 witness: two "processing"-like answers, then a terminal one.
C3_Witness ==
    \E r \in Reqs :
        /\ Waiting(r) /\ pc[r] = "done"
        /\ obs[r].term /\ obs[r].n = 2 /\ obs[r].polls = 3
        /\ obs[r].slept = 2 * check_interval

\* C4: a wait that saw no terminal status before the elapsed time reached the
\* deadline returns (None, None) as timed out, without an upload, and no poll is
\* asked at or after the deadline; a waiter that is done with the elapsed time at the
\* deadline timed out.
C4_DeadlineEndsWait ==
    \A r \in Reqs :
        Waiting(r)
        => /\ (obs[r].exit = "timeout"
               => /\ pc[r] = "done"
                  /\ ~obs[r].term
                  /\ wait_time[r] >= max_wait_seconds[r]
                  /\ obs[r].video_url = None /\ obs[r].s3_url = None
                  /\ obs[r].archives = 0)
           /\ (obs[r].polls > 0 => obs[r].at < max_wait_seconds[r])
           /\ (pc[r] = "done" /\ wait_time[r] >= max_wait_seconds[r]
               => obs[r].exit = "timeout")

\* C4 witness: a wait timed out after polling through the whole deadline.
C4_Witness ==
    \E r \in Reqs :
        /\ Waiting(r) /\ pc[r] = "done" /\ obs[r].exit = "timeout"
        /\ obs[r].polls * check_interval = max_wait_seconds[r]
\* The upload of request r was made and failed.
ArchiveFailed(r) == obs[r].upload.kind = "called" /\ obs[r].upload.s3_url = None

\* The upload of request r was made and returned a URL.
Archived(r) == obs[r].upload.kind = "called" /\ obs[r].upload.s3_url # None

\* The latest poll of request r answered "completed" with a usable video_url.
CompletedWithUrl(r) ==
    /\ obs[r].last.kind = "ok" /\ obs[r].last.status = "completed"
    /\ Truthy(obs[r].last.video_url)

\* The archived URL a response payload carries, None when it carries none.
ArchivedUrlOf(body) == IF "s3_url" \in DOMAIN body THEN body.s3_url ELSE None

\* C5: in generate-and-wait, when the job completed with a remote URL and the upload
\* failed, the response is a 200 with status "completed", the remote video_url and no
\* archived URL.
C5_ArchiveFailureKeepsCompleted ==
    \A r \in Reqs :
        (Waiting(r) /\ CompletedWithUrl(r) /\ ArchiveFailed(r))
        => /\ pc[r] = "done"
           /\ resp[r].code = 200
           /\ resp[r].body.status = "completed"
           /\ resp[r].body.video_url = obs[r].last.video_url
           /\ ArchivedUrlOf(resp[r].body) = None

\* C5 witness: a completed wait whose upload failed at the storage write.
C5_Witness ==
    \E r \in Reqs :
        /\ Waiting(r) /\ pc[r] = "done" /\ CompletedWithUrl(r)
        /\ ArchiveFailed(r) /\ obs[r].upload.outcome = "client_error"

\* The status and message of a response payload.
Label(response) == [status |-> response.body.status, message |-> response.body.message]

\* C6 (as claimed): the response of a timed-out wait differs, in status or message,
\* from the response generate-and-wait gives for the same job when the provider
\* reports it failed.
C6_TimeoutAndFailureDistinguishable ==
    \A r \in Reqs :
        (Waiting(r) /\ pc[r] = "done" /\ obs[r].exit = "timeout")
        => \A p \in PollResponses(video_id[r]) :
            (p.kind = "ok" /\ p.status \in {"failed", "error"})
            => \A w \in WaiterOnPoll(p, video_id[r], bucket) :
                Label(resp[r])
                    # Label(GenerateAndWaitResponse(video_id[r], w.video_url, w.s3_url))

\* C7 (as claimed): when the job completed and the upload returned a URL, the response
\* of generate-and-wait or status carries the job id, the status "completed", the
\* remote URL and that archived URL.
C7_ResponseCarriesArchivedUrl ==
    \A r \in Reqs :
        (pc[r] = "done" /\ handler[r] \in {"generate_and_wait", "status"}
            /\ CompletedWithUrl(r) /\ Archived(r))
        => /\ resp[r].code = 200
           /\ resp[r].body.video_id = video_id[r]
           /\ resp[r].body.status = "completed"
           /\ resp[r].body.video_url = obs[r].last.video_url
           /\ ArchivedUrlOf(resp[r].body) = obs[r].upload.s3_url

\* C8: in a wait, a poll that raised, did not parse or was not a 200 never ends the
\* wait: a wait is over only on a terminal status or at the deadline, every poll that
\* did not end it was followed by one suspension of check_interval added to the
\* elapsed time, and after it the waiter is back at the head of its loop.
C8_PollErrorIsTransient ==
    \A r \in Reqs :
        (Waiting(r) /\ obs[r].polls > 0)
        => /\ (ErrorPoll(obs[r].last) /\ pc[r] = "done"
               => obs[r].exit = "timeout" /\ wait_time[r] >= max_wait_seconds[r])
           /\ (pc[r] = "done" => obs[r].exit = "timeout" \/ TerminalStatus(obs[r].last))
           /\ (ErrorPoll(obs[r].last) /\ pc[r] # "done" => pc[r] \in {"sleep", "loop"})
           /\ (pc[r] = "sleep"
               => wait_time[r] = check_interval * (obs[r].polls - 1)
                  /\ obs[r].slept = wait_time[r])
           /\ (pc[r] = "loop"
               => wait_time[r] = check_interval * obs[r].polls
                  /\ obs[r].slept = wait_time[r])

\* C8 witness: after a poll that raised, the waiter has slept and is about to poll
\* again before the deadline.
C8_Witness ==
    \E r \in Reqs :
        /\ Waiting(r) /\ pc[r] = "loop"
        /\ obs[r].last.kind = "exception"
        /\ obs[r].polls = 2 /\ wait_time[r] = 2 * check_interval
        /\ LoopCondition(wait_time[r], max_wait_seconds[r])

\* C9: a status request makes exactly one poll and never suspends; when that poll
\* answers "completed" with a remote URL it makes one upload of that URL for that job,
\* and whatever the upload returns the response is a 200 with status "completed" and
\* the remote video_url.
C9_StatusPollsOnceAndSurvivesArchiveFailure ==
    \A r \in Reqs :
        (handler[r] = "status" /\ pc[r] = "done")
        => /\ obs[r].polls = 1 /\ obs[r].slept = 0 /\ obs[r].submits = 0
           /\ (CompletedWithUrl(r)
               => /\ obs[r].archives = 1
                  /\ obs[r].upload.kind = "called"
                  /\ obs[r].upload.video_url = obs[r].last.video_url
                  /\ obs[r].upload.video_id = video_id[r]
                  /\ resp[r].code = 200
                  /\ resp[r].body.status = "completed"
                  /\ resp[r].body.video_url = obs[r].last.video_url)
           /\ (~CompletedWithUrl(r) => obs[r].archives = 0)

\* C9 witness: a status request whose upload failed at the download.
C9_Witness ==
    \E r \in Reqs :
        /\ handler[r] = "status" /\ pc[r] = "done" /\ CompletedWithUrl(r)
        /\ ArchiveFailed(r) /\ obs[r].upload.outcome = "download_failed"
        /\ resp[r].code = 200

\* C10: a generate request is over in the step that submits: it is answered without a
\* poll, a suspension or an upload, the bucket is left as it was, and after a
\* successful submit the answer is a 200 with the provider's video_id, status
\* "processing" and no URL.
C10_GenerateIsNonBlocking ==
    [][\A r \in Reqs :
        (pc[r] = "idle" /\ handler'[r] = "generate")
        => /\ pc'[r] = "done"
           /\ bucket' = bucket
           /\ obs'[r].submits = 1
           /\ obs'[r].polls = 0 /\ obs'[r].slept = 0 /\ obs'[r].archives = 0
           /\ (video_id'[r] # None
               => /\ resp'[r].code = 200
                  /\ resp'[r].body.video_id = video_id'[r]
                  /\ resp'[r].body.status = "processing"
                  /\ resp'[r].body.video_url = None
                  /\ ArchivedUrlOf(resp'[r].body) = None)
           /\ (video_id'[r] = None => resp'[r].code = 500)]_vars

\* C10 witness: a generate request answered after a successful submit.
C10_Witness ==
    \E r \in Reqs :
        /\ handler[r] = "generate" /\ pc[r] = "done"
        /\ video_id[r] \in VideoIds /\ resp[r].code = 200

\* Request r was posted to one of the two submit routes.
SubmitRoute(r) == request[r].route \in {"generate", "generate-and-wait"}

\* C11: a request to generate or generate-and-wait whose body has no narration text
\* (the member is absent or null) is answered with a 4xx status and its handler is
\* never entered: it makes no submit, no poll and no upload, and it never suspends.
C11_MalformedInputRejectedBeforeAnyCall ==
    \A r \in Reqs :
        (SubmitRoute(r) /\ request[r].body.text.kind # "str")
        => /\ pc[r] = "done"
           /\ resp[r].code \in 400..499
           /\ handler[r] = "none"
           /\ obs[r] = Obs0

\* C11 witness: a generate-and-wait request without the text member answered 422.
C11_Witness ==
    \E r \in Reqs :
        /\ request[r].route = "generate-and-wait"
        /\ request[r].body.text = Missing
        /\ resp[r].code = 422
        /\ obs[r].submits = 0

\* The submit of request r was answered and the answer is one of the four failures:
\* the request raised, the body was not JSON, the status was not 200, or the 200
\* body named no job.
SubmitFailed(r) ==
    /\ handler[r] \in {"generate", "generate_and_wait"}
    /\ \/ obs[r].submit.kind \in {"exception", "badjson", "http_error"}
       \/ obs[r].submit.kind = "ok" /\ obs[r].submit.video_id \notin VideoIds

\* C12: a failed submit is answered with a 5xx status by both submit handlers, and
\* the request is then over: no poll, no upload and no suspension follows it.
C12_FailedSubmitIs5xxWithoutPoll ==
    \A r \in Reqs :
        SubmitFailed(r)
        => /\ pc[r] = "done"
           /\ resp[r].code \in 500..599
           /\ obs[r].submits = 1
           /\ obs[r].polls = 0 /\ obs[r].archives = 0 /\ obs[r].slept = 0
           /\ obs[r].upload = NotCalled

\* C12 witness: generate-and-wait got a 200 submit answer without data.video_id.
C12_Witness ==
    \E r \in Reqs :
        /\ handler[r] = "generate_and_wait"
        /\ obs[r].submit.kind = "ok" /\ obs[r].submit.video_id = None
        /\ resp[r].code = 500
        /\ obs[r].polls = 0

\* C13 (as claimed): a DELETE whose delete_video returned False is answered 404, and
\* a success message is sent only when delete_video returned True.
C13_FailedDeleteAnswers404 ==
    \A r \in Reqs :
        (handler[r] = "delete" /\ pc[r] = "done")
        => /\ (obs[r].deleted.success = FALSE => resp[r].code = 404)
           /\ (resp[r].code = 200 => obs[r].deleted.success = TRUE)

\* C19: list_videos never raises.  When the provider call fails it returns the empty
\* list, and GET videos answers 200 with no entries and count 0 although the bucket
\* may hold objects; when it succeeds there is exactly one entry per object of the
\* bucket, carrying that object's key, size and last_modified and the URL of that
\* key.  In both cases count is the length of the list.
C19_ListNeverFails ==
    \A r \in Reqs :
        handler[r] = "list"
        => LET l == obs[r].listed
               body == resp[r].body
           IN  /\ ~l.raised
               /\ resp[r].code = 200
               /\ body.videos = l.videos
               /\ body.count = Len(body.videos)
               /\ (l.outcome # "ok" => body.videos = <<>> /\ body.count = 0)
               /\ (l.outcome = "ok"
                   => /\ body.count = Cardinality(bucket)
                      /\ \A x \in bucket : \E i \in 1..Len(body.videos) :
                            body.videos[i] = [key |-> x.key, url |-> S3Url(x.key),
                                              size |-> x.size,
                                              last_modified |-> x.last_modified])

\* C19 witness: the listing failed while the bucket held an object, and the client
\* got an empty list.
C19_Witness ==
    \E r \in Reqs :
        /\ handler[r] = "list"
        /\ obs[r].listed.outcome = "client_error"
        /\ bucket # {}
        /\ resp[r].code = 200 /\ resp[r].body.count = 0

\* C20: delete_video never raises.  It returns False whenever the provider call
\* failed, and then the bucket is as it was; it returns True only when the provider
\* call went through, and then the bucket holds no object under that key.
C20_DeleteReturnsTrueOnlyOnSuccess ==
    \A r \in Reqs :
        handler[r] = "delete"
        => LET d == obs[r].deleted
           IN  /\ ~d.raised
               /\ (d.outcome # "ok" => d.success = FALSE)
               /\ (d.success = TRUE
                   => /\ d.outcome = "ok"
                      /\ \A x \in bucket : x.key # d.video_key)

\* C20 witness: the provider refused to delete an object, which is still there, and
\* delete_video returned False.
C20_Witness ==
    \E r \in Reqs :
        /\ handler[r] = "delete"
        /\ obs[r].deleted.outcome = "client_error"
        /\ obs[r].deleted.success = FALSE
        /\ \E x \in bucket : x.key = obs[r].deleted.video_key

\* Request r has called upload_video_from_url.
Uploaded(r) == obs[r].upload.kind = "called"

\* C14: upload_video_from_url never raises.  A failed download, a failed write and an
\* unexpected error all give the caller the same value, None, and a URL is returned
\* only when the download and the write both succeeded.
C14_UploadFailureIsNone ==
    \A r \in Reqs :
        Uploaded(r)
        => LET u == obs[r].upload
           IN  /\ ~u.raised
               /\ (u.outcome \in {"download_failed", "client_error", "unexpected"}
                   => u.s3_url = None)
               /\ (u.s3_url # None => u.outcome = "ok")
               /\ (u.outcome = "ok" => u.s3_url # None)

\* C14 witness: the status handler's upload met an unexpected error and got None.
C14_Witness ==
    \E r \in Reqs :
        /\ handler[r] = "status"
        /\ Uploaded(r)
        /\ obs[r].upload.outcome = "unexpected"
        /\ obs[r].upload.s3_url = None
        /\ resp[r].code = 200

\* Request r makes a successful upload in this step.
UploadStep(r) ==
    /\ obs'[r].archives > obs[r].archives
    /\ obs'[r].upload.outcome = "ok"

\* The key written by the upload that request r makes in this step.
UploadKey(r) == obs'[r].upload.s3_url.key

\* C15 (as claimed): a successful upload never uses a key that is already in the
\* bucket and leaves every object of the bucket as it was, so two uploads for one job
\* give two keys, two URLs and two objects.
C15_UploadsNeverShareAKey ==
    [][\A r \in Reqs :
            UploadStep(r)
            => /\ \A x \in bucket : x.key # UploadKey(r)
               /\ bucket \subseteq bucket']_vars

\* C15 (amended): a successful upload leaves in place every object that was written
\* for another job or in another second, and its key and URL differ from theirs; an
\* object written for the same job in the same second has the same key and is
\* replaced, the bucket holding one object under that key afterwards.
C15_UploadsInDistinctSecondsAreDistinct ==
    [][\A r \in Reqs :
            UploadStep(r)
            => LET u == obs'[r].upload
               IN  /\ \A x \in bucket :
                        IF x.last_modified # u.timestamp \/ x.key.video_id # u.video_id
                        THEN /\ x \in bucket'
                             /\ x.key # UploadKey(r)
                             /\ S3Url(x.key) # u.s3_url
                        ELSE /\ x.key = UploadKey(r)
                             /\ S3Url(x.key) = u.s3_url
                   /\ Cardinality({y \in bucket' : y.key = UploadKey(r)}) = 1]_vars

\* C15 witness: a job uploaded twice, in two different seconds: the bucket holds two
\* objects of that job and the latest URL designates one of them.
C15_Witness ==
    \E r \in Reqs :
        /\ Uploaded(r)
        /\ obs[r].upload.outcome = "ok"
        /\ \E x, y \in bucket :
            /\ x.key.video_id = obs[r].upload.video_id
            /\ y.key.video_id = obs[r].upload.video_id
            /\ x.last_modified # y.last_modified
            /\ obs[r].upload.s3_url = S3Url(x.key)

\* C16: every object of the bucket has a key heygen_videos/{timestamp}_{job}.mp4
\* for a job of the provider, and after a successful upload the URL returned is the
\* endpoint without its trailing slash, the bucket name and the key built from the
\* call's second and job id, and the bucket holds under that key the content
\* downloaded by that call.
C16_UrlDesignatesWrittenObject ==
    /\ \A x \in bucket :
        /\ x.key.prefix = "heygen_videos/" /\ x.key.suffix = ".mp4"
        /\ x.key.video_id \in VideoIds
    /\ \A r \in Reqs :
        (Uploaded(r) /\ obs[r].upload.outcome = "ok")
        => LET u == obs[r].upload
               key == [prefix |-> "heygen_videos/", timestamp |-> u.timestamp,
                       video_id |-> u.video_id, suffix |-> ".mp4"]
           IN  /\ u.video_id = video_id[r]
               /\ u.s3_url = [kind |-> "s3",
                              endpoint |-> <<"https://nyc3.digitaloceanspaces.com">>,
                              bucket_name |-> "smtech-space", key |-> key]
               /\ \E x \in bucket : x.key = key /\ x.body = u.video_url

\* C16 witness: a wait that ended with a successful upload.
C16_Witness ==
    \E r \in Reqs :
        /\ handler[r] = "generate_and_wait"
        /\ Uploaded(r)
        /\ obs[r].upload.outcome = "ok"
        /\ \E x \in bucket : S3Url(x.key) = obs[r].upload.s3_url

\* The status values that are neither "completed" nor "failed" nor "error".
OtherStatuses == ProviderStatuses \ {"completed", "failed", "error"}

\* C17: both readers of data.status match it exactly.  In a wait, "completed" ends
\* the wait as completed, "failed" and "error" end it as failed, and after any other
\* value (a missing status, "Completed", "waiting", ...) the waiter has made no
\* upload and goes on until its deadline.  The status handler answers "completed",
\* "failed" and "processing" for the same three classes.
C17_StatusMatchIsExact ==
    \A r \in Reqs :
        obs[r].last.kind = "ok"
        => LET status == obs[r].last.status
           IN  /\ Waiting(r)
                  => /\ (status = "completed" => pc[r] = "done" /\ obs[r].exit = "completed")
                     /\ (status \in {"failed", "error"}
                         => pc[r] = "done" /\ obs[r].exit = "failed")
                     /\ (status \in OtherStatuses
                         => /\ obs[r].exit \in {"none", "timeout"}
                            /\ obs[r].exit = "none" => pc[r] \in {"sleep", "loop"}
                            /\ obs[r].archives = 0)
               /\ handler[r] = "status"
                  => /\ resp[r].code = 200
                     /\ (status = "completed" => resp[r].body.status = "completed")
                     /\ (status \in {"failed", "error"} => resp[r].body.status = "failed")
                     /\ (status \in OtherStatuses
                         => resp[r].body.status = "processing" /\ obs[r].archives = 0)

\* C17 witness: a wait whose second poll answered "Completed" and which is suspended.
C17_Witness ==
    \E r \in Reqs :
        /\ Waiting(r)
        /\ obs[r].last.kind = "ok" /\ obs[r].last.status = "Completed"
        /\ obs[r].polls = 2
        /\ pc[r] = "sleep"

\* C18: the status handler answers a poll that raised, did not parse or was not a 200
\* with a 5xx status and makes no upload, and answers a job reported "failed" or
\* "error" with a 200 whose status is "failed".  The waiter goes on after the former
\* (only its deadline ends the wait) and returns at once after the latter.
C18_PollErrorIsNotAFailedJob ==
    \A r \in Reqs :
        /\ (handler[r] = "status" /\ ErrorPoll(obs[r].last))
           => /\ resp[r].code \in 500..599
              /\ obs[r].archives = 0 /\ obs[r].upload = NotCalled
        /\ (handler[r] = "status" /\ obs[r].last.kind = "ok"
                /\ obs[r].last.status \in {"failed", "error"})
           => /\ resp[r].code = 200
              /\ resp[r].body.status = "failed"
        /\ (Waiting(r) /\ ErrorPoll(obs[r].last))
           => /\ obs[r].exit \in {"none", "timeout"}
              /\ obs[r].exit = "none" => pc[r] \in {"sleep", "loop"}
              /\ obs[r].exit = "timeout" => ~LoopCondition(wait_time[r], max_wait_seconds[r])
        /\ (Waiting(r) /\ obs[r].last.kind = "ok"
                /\ obs[r].last.status \in {"failed", "error"})
           => /\ obs[r].exit = "failed"
              /\ wait_time[r] = obs[r].at

\* C18 witness: the status handler could not parse the provider's answer.
C18_Witness ==
    \E r \in Reqs :
        /\ handler[r] = "status"
        /\ obs[r].last.kind = "badjson"
        /\ resp[r].code = 500

\* C24: GET health answers 200 with status "healthy" whatever the probe found, and
\* its s3_connection flag is the probe's result: true when head_bucket answered,
\* false when it raised, the probe itself never raising.
C24_HealthAlwaysHealthy ==
    \A r \in Reqs :
        handler[r] = "health"
        => LET c == obs[r].probed
           IN  /\ ~c.raised
               /\ resp[r].code = 200
               /\ resp[r].body.status = "healthy"
               /\ resp[r].body.s3_connection \in BOOLEAN
               /\ resp[r].body.s3_connection = c.reachable
               /\ c.reachable = (c.outcome = "ok")

\* C24 witness: the probe met an unexpected error and the health request answered
\* healthy with the flag false.
C24_Witness ==
    \E r \in Reqs :
        /\ handler[r] = "health"
        /\ obs[r].probed.outcome = "unexpected"
        /\ resp[r].code = 200
        /\ resp[r].body.s3_connection = FALSE

\* C30: whatever X-Api-Key header a status, delete or list request carries (none, an
\* empty one or any key), its handler is entered and the response is the one the
\* handler computes from the outcome of its remote call alone, so that requests which
\* differ only in that header make the same calls and get the same responses.
C30_ApiKeyHeaderIsIgnored ==
    \A r \in Reqs :
        /\ request[r].route = "status"
           => /\ handler[r] = "status"
              /\ obs[r].polls = 1
              /\ resp[r] \in {h.resp : h \in StatusOnPoll(obs[r].last, video_id[r], {})}
        /\ request[r].route = "delete"
           => /\ handler[r] = "delete"
              /\ obs[r].deleted.kind = "called"
              /\ resp[r] = DeleteResponse(obs[r].deleted.video_key, obs[r].deleted)
        /\ request[r].route = "list"
           => /\ handler[r] = "list"
              /\ obs[r].listed.kind = "called"
              /\ resp[r] = ListResponse(obs[r].listed)

\* C30 witness: a delete request without the header was served and answered 200.
C30_Witness ==
    \E r \in Reqs :
        /\ request[r].route = "delete"
        /\ x_api_key[r] = None
        /\ handler[r] = "delete"
        /\ resp[r].code = 200

\* C22 (as claimed): every error response has the same envelope, an object with the
\* members error and status_code, the latter equal to the HTTP status.
C22_ErrorEnvelopeIsUniform ==
    \A r \in Reqs :
        (pc[r] = "done" /\ resp[r].code >= 400)
        => /\ DOMAIN resp[r].body = {"error", "status_code"}
           /\ resp[r].body.status_code = resp[r].code

\* C27: a wait calls upload_video_from_url at most once, and only when its latest
\* poll answered "completed" with a non-empty video_url: the call is made with that
\* URL and the waited job id and the waiter then returns.  A wait that ended as
\* failed or by its deadline, or on a completed answer without video_url, made none.
C27_ArchiveOnceAfterCompletedWithUrl ==
    \A r \in Reqs :
        Waiting(r)
        => /\ obs[r].archives <= 1
           /\ (obs[r].archives = 1) = Uploaded(r)
           /\ Uploaded(r)
              => /\ CompletedWithUrl(r)
                 /\ obs[r].upload.video_url = obs[r].last.video_url
                 /\ obs[r].upload.video_id = video_id[r]
                 /\ obs[r].exit = "completed" /\ pc[r] = "done"
           /\ obs[r].exit \in {"failed", "timeout"} => obs[r].archives = 0
           /\ (obs[r].last.kind = "ok" /\ obs[r].last.status = "completed"
                    /\ ~Truthy(obs[r].last.video_url))
              => obs[r].archives = 0

\* C27 witness: a wait whose third poll answered completed with a URL and which made
\* its one upload.
C27_Witness ==
    \E r \in Reqs :
        /\ Waiting(r)
        /\ obs[r].polls = 3
        /\ Uploaded(r)
        /\ obs[r].archives = 1
        /\ obs[r].upload.video_url = RemoteUrl(video_id[r])

\* C28: in a 200 response of generate, generate-and-wait or status a video_url is
\* given only with status "completed", an archived URL is given only when the
\* request's upload returned a URL, and generate-and-wait answers "completed" exactly
\* when the waiter returned a non-empty video_url.
C28_UrlsOnlyWhenCompletedAndArchived ==
    \A r \in Reqs :
        (pc[r] = "done" /\ resp[r].code = 200
            /\ handler[r] \in {"generate", "generate_and_wait", "status"})
        => /\ resp[r].body.video_url # None => resp[r].body.status = "completed"
           /\ ArchivedUrlOf(resp[r].body) # None => Archived(r)
           /\ handler[r] = "generate_and_wait"
              => (resp[r].body.status = "completed") = Truthy(obs[r].video_url)

\* C28 witness: a wait whose waiter returned a remote URL and whose response is
\* "completed" with that URL.
C28_Witness ==
    \E r \in Reqs :
        /\ handler[r] = "generate_and_wait"
        /\ pc[r] = "done"
        /\ obs[r].video_url = RemoteUrl(video_id[r])
        /\ resp[r].body.status = "completed"
        /\ resp[r].body.video_url = RemoteUrl(video_id[r])

\* C29: an upload whose download failed writes nothing: the bucket after the call is
\* the bucket before it.
C29_FailedDownloadWritesNothing ==
    [][\A r \in Reqs :
            (obs'[r].archives > obs[r].archives /\ obs'[r].upload.outcome = "download_failed")
            => bucket' = bucket]_vars

\* C29 witness: an upload whose download failed, the bucket holding no object under
\* the key that call built.
C29_Witness ==
    \E r \in Reqs :
        /\ Uploaded(r)
        /\ obs[r].upload.outcome = "download_failed"
        /\ \A x \in bucket : x.key # S3Key(obs[r].upload.timestamp, obs[r].upload.video_id)

\* ceil(max / interval) for a positive max, 0 otherwise.
CeilDiv(max, interval) == IF max <= 0 THEN 0 ELSE (max + interval - 1) \div interval

\* The polls a wait with deadline max makes when no answer is terminal.
MaxPolls(r) == CeilDiv(max_wait_seconds[r], check_interval)

\* C25 (bound): a wait never polls more than ceil(max_wait_seconds / check_interval)
\* times; while no answer was terminal it has polled once per round, and it returns
\* only by its deadline, after exactly that many polls: 3 for a deadline of 30, none
\* for a deadline of 0 or less.
C25_PollBound ==
    \A r \in Reqs :
        Waiting(r)
        => /\ obs[r].polls <= MaxPolls(r)
           /\ ~obs[r].term
              => /\ pc[r] = "done" => obs[r].exit = "timeout"
                 /\ obs[r].exit = "timeout"
                    => /\ obs[r].polls = MaxPolls(r)
                       /\ obs[r].video_url = None /\ obs[r].s3_url = None
                       /\ max_wait_seconds[r] = 30 => obs[r].polls = 3
                       /\ max_wait_seconds[r] <= 0 => obs[r].polls = 0

\* C25: every wait terminates, and the deadline alone bounds its polls.
C25_WaitTerminatesAtDeadline ==
    /\ []C25_PollBound
    /\ \A r \in Reqs : (pc[r] = "loop") ~> (pc[r] = "done")

\* C25 witness: a wait with deadline 30 that timed out after three polls, one of them
\* an error and none of them terminal.
C25_Witness ==
    \E r \in Reqs :
        /\ Waiting(r)
        /\ max_wait_seconds[r] = 30
        /\ obs[r].exit = "timeout"
        /\ obs[r].polls = 3
        /\ obs[r].n = -1
        /\ ~obs[r].term

\* What holds of a wait that runs alone: its elapsed time is the time it slept, it
\* has polled once per round, an upload it made is for its own job and that job's
\* URL, the object it wrote is in the bucket, and its response is computed from its
\* own tuple.
AsIfAlone(r) ==
    /\ wait_time[r] = obs[r].slept
    /\ pc[r] = "loop" => obs[r].polls * check_interval = wait_time[r]
    /\ pc[r] = "sleep" => (obs[r].polls - 1) * check_interval = wait_time[r]
    /\ obs[r].polls <= CeilDiv(max_wait_seconds[r], check_interval)
    /\ Uploaded(r)
       => /\ obs[r].upload.video_id = video_id[r]
          /\ obs[r].upload.video_url = RemoteUrl(video_id[r])
          /\ obs[r].upload.video_url = obs[r].last.video_url
    /\ obs[r].s3_url # None
       => \E x \in bucket : S3Url(x.key) = obs[r].s3_url /\ x.key.video_id = video_id[r]
    /\ pc[r] = "done"
       => resp[r] = GenerateAndWaitResponse(video_id[r], obs[r].video_url, obs[r].s3_url)

\* The locals and the observations of request r.
Locals(r) ==
    <<pc[r], handler[r], video_id[r], max_wait_seconds[r], wait_time[r], obs[r], resp[r]>>

\* Request r takes a step and leaves alone every other request and every object of
\* the bucket that belongs to another job.
StepOf(r) ==
    Locals(r)' # Locals(r)
    => /\ \A q \in Reqs \ {r} : Locals(q)' = Locals(q)
       /\ {x \in bucket' : x.key.video_id # video_id'[r]}
            = {x \in bucket : x.key.video_id # video_id'[r]}

\* C21 (state part): every wait in flight is as if it ran alone.
C21_EachWaitAsIfAlone == \A r \in Reqs : Waiting(r) => AsIfAlone(r)

\* C21: two waits for different jobs, interleaved in any way, do not interact: a step
\* of one changes nothing of the other nor any object of the other's job, and each
\* wait is at every moment as if it ran alone.
C21_ConcurrentWaitsDoNotInteract ==
    /\ []C21_EachWaitAsIfAlone
    /\ [][\A r \in Reqs : StepOf(r)]_vars

\* C21 witness: two waits for different jobs in flight together, the first suspended
\* after its first poll while the second has returned from its second poll with an
\* upload.
C21_Witness ==
    \E r, q \in Reqs :
        /\ Waiting(r) /\ Waiting(q)
        /\ video_id[r] # video_id[q]
        /\ pc[r] = "sleep" /\ obs[r].polls = 1
        /\ pc[q] = "done" /\ obs[q].polls = 2 /\ Uploaded(q)

\* C23 (as claimed): once a response has told a client that a job is "completed" or
\* "failed", every later 200 response of status or generate-and-wait for that job
\* reports that same status.
C23_ReportedStatusNeverGoesBack ==
    [][\A r \in Reqs :
            (pc[r] = "done" /\ pc'[r] = "idle" /\ resp[r].code = 200
                /\ video_id[r] \in VideoIds /\ reported[video_id[r]] # "none")
            => resp[r].body.status = reported[video_id[r]]]_vars

\* C26 (as claimed): once the client of a wait has dropped the connection, that
\* request makes no further poll and no upload.
C26_AbandonedWaitStops ==
    [][\A r \in Reqs :
            obs[r].abandoned
            => /\ obs'[r].polls = obs[r].polls
               /\ obs'[r].archives = obs[r].archives]_vars
====
